---- MODULE Spec2Model ----
(***************************************************************************)
(* Model of the chat simulator's turn-based simulation scheduler           *)
(* (services/simulation_service.py) for one simulation session: the        *)
(* session's database row, the message store, the session's queue, the     *)
(* persona store and the asyncio tasks running _run_simulation.            *)
(*                                                                         *)
(* A request handler (create/start/pause/stop/update) is one action.  A    *)
(* scheduler task is a process whose program counter names the await it is *)
(* suspended at; one Step executes the code from that await to the next.   *)
(* task.cancel() sets a flag; CancelledError is raised at the await where  *)
(* the task is suspended, when the task is next resumed.                   *)
(*                                                                         *)
(* The module also models the queue manager (core/queue_manager.py) as its *)
(* callers use it, a PersonaMemory object (models/persona.py), the persona *)
(* table with its create, update and delete requests                       *)
(* (services/persona_service_db.py) and send_message (api/routes/chat.py). *)
(***************************************************************************)
EXTENDS Integers, Sequences, FiniteSets, TLC

\* ---------------------------------------------------------------- bounds
MaxTasks == 2          \* tasks (accepted start calls) per behaviour
MaxStarts == 1         \* accepted start calls per behaviour in Spec
MaxTurnsCfg == 2       \* largest configured max_turns tried (Spec, SpecRace)
MaxTurnsRun == 3       \* largest configured max_turns tried (SpecRun)
MaxUpdates == 1        \* update_simulation calls per behaviour (SpecUpdate)
MaxFails == 1          \* failing turns (LLM or store) per behaviour
MaxQueueSize == 2      \* max_queue_size the queue manager is built with
MaxMessages == 3       \* messages handed to the queue manager per behaviour
MaxRaceMessages == 2   \* the same, when the callers' method calls interleave
MaxMemories == 4       \* entries added to the PersonaMemory per behaviour
MaxShortTermLimit == 3 \* largest short_term_limit tried
MaxConsolidations == 2 \* consolidate calls per behaviour
MaxPersonaRows == 3    \* rows of table personas
MaxUserMessages == 1   \* send_message requests on the session
MaxAdded == 12         \* add_memory calls on the persona per behaviour
MaxAdvice == 11        \* get_advice calls that are recorded per behaviour

\* ------------------------------------------------------ program constants
DefaultMaxTurns == 20  \* _db_to_model: max_turns or 20
DefaultTurnDelay == 10 \* _db_to_model: turn_delay or 1.0 (tenths of a second)
SkipDelayBelow == 5    \* turn_delay > 0.5 (tenths of a second)

NoMaxTurns == 0        \* max_turns column NULL / config.max_turns None
NoTask == 0            \* no entry in _simulation_tasks

PersonaIds == {"A", "B"}
PersonaStates == {"active", "inactive", "missing"}
\* the persona stores a behaviour starts from
PersonaStores == {[p \in PersonaIds |-> "active"],
                  [p \in PersonaIds |-> IF p = "A" THEN "inactive" ELSE "active"],
                  [p \in PersonaIds |-> IF p = "A" THEN "active" ELSE "missing"]}
PersonaLists == {<<>>, <<"A">>, <<"A", "B">>}
TurnDelays == {0, 3}   \* tenths of a second
TaskIds == 1..MaxTasks

\* SimulationStatus
SimulationStatus == {"created", "running", "paused", "completed", "failed"}

VARIABLES
  personas,          \* persona store: id -> "active" | "inactive" | "missing"
  memories,          \* MemoryDB: id -> number of short_term rows
  db,                \* the session's row in table simulations
  messages,          \* Message Store rows of the session, in insertion order
  completed,         \* MessageQueue.completed of the session's queue
  tasks,             \* the asyncio tasks created by start_simulation
  simulation_tasks,  \* SimulationService._simulation_tasks[simulation_id]
  ret,               \* what the last request handler returned or raised
  fails,             \* history: turns that failed (bounds the failures)
  updates,           \* history: update_simulation calls (bounds them)
  queues,            \* MessageQueueManager.queues of the chat sessions
  message_status,    \* Message.status of the messages given to the manager
  message_role,      \* Message.role of these messages
  clients,           \* the callers of the queue manager's methods
  memory,            \* a PersonaMemory object (models/persona.py)
  persona_rows,      \* table personas: row -> name, for the name rules
  creators,          \* the create_persona requests in flight
  chat,              \* the send_message request on the session, if any
  agent,             \* the GlobalAgentService object: history and memory
  advisers           \* the get_advice requests in flight

\* the state of the queue manager as its callers use it
qvars == <<queues, message_status, message_role, clients>>

\* the PersonaMemory object
mvars == <<memory>>

\* the persona table and the requests that write it
pvars == <<persona_rows, creators>>

\* the global agent and the requests that ask it for advice
gvars == <<agent, advisers>>

\* what the simulation service and its tasks never write
ovars == <<qvars, mvars, pvars, gvars, chat>>

vars == <<personas, memories, db, messages, completed, tasks,
          simulation_tasks, ret, fails, updates, ovars>>

\* datetime.utcnow() as written by a handler or by the task t: a stamp names
\* its writer, so that a rewritten stamp differs from the one it replaces
NoStamp == 0
StopStamp == -1

\* the chat sessions, the callers and the messages of the queue manager
Sessions == {"s1", "s2"}
ClientIds == {1, 2}
MessageIds == 1..MaxMessages
NoMessage == 0         \* dequeue returns None
Limits == {0, 1, 2}

\* MessageStatus, and "none" for a message that is not created yet
MessageStatus == {"pending", "processing", "completed", "failed"}

\* a session id without an entry in MessageQueueManager.queues; serial
\* counts the MessageQueue objects constructed for the session
NoQueue == [serial |-> 0, queue |-> <<>>, processing |-> {},
            completed |-> <<>>]

\* a caller that is not inside a method of the queue manager
IdleClient == [pc |-> "idle", op |-> "none", session |-> "s1", arg |-> 0,
               ref |-> 0, ret |-> <<>>]

\* PersonaMemory(): the lists, and how many entries and consolidations the
\* object has seen (history)
NoMemory == [short_term |-> <<>>, long_term |-> <<>>, added |-> 0,
             consolidated |-> 0]

\* Memory.importance in tenths: the default 0.5 and the values around 0.7
Importances == {5, 7, 8}
ImportanceThreshold == 7   \* m.importance >= 0.7
ShortTermLimits == 0..MaxShortTermLimit
SHORT_TERM_MEMORY_SIZE == 10   \* settings.SHORT_TERM_MEMORY_SIZE
\* the importance add_memory is called with: its default and a high one
MemoryImportances == {5, 8}

\* the rows of table personas and the names requests ask for; NoName marks
\* a row that is not there
RowIds == 1..MaxPersonaRows
Names == {"Ann", "ann", "Bob"}
NoName == "none"
CreatorIds == {1, 2}
MAX_PERSONAS == 20
IdleCreator == [pc |-> "idle", name |-> NoName]

\* the get_advice requests; entry is the number of the history entry the
\* request wrote and insight what became of its _extract_insights call
AdviserIds == {1, 2}
AgentShortTermLimit == 10  \* consolidate(short_term_limit=10)
NoAgent == [conversation_history |-> <<>>, short_term |-> <<>>,
            long_term |-> <<>>]
IdleAdviser == [pc |-> "idle", extract |-> FALSE, entry |-> 0,
                insight |-> "none", ret |-> "none"]

\* DBSimulation before create_simulation has inserted it
NoRow == [exists |-> FALSE, persona_ids |-> <<>>, max_turns |-> NoMaxTurns,
          turn_delay |-> 0, status |-> "created", message_count |-> 0,
          started_at |-> NoStamp, completed_at |-> NoStamp]

\* no pause_simulation call has returned True since the task was created
NoPause == -1

\* a task id not yet used by asyncio.create_task; pause_turn is history: the
\* turn index the task had when pause_simulation last returned True
NoTaskRec == [pc |-> "none", cancelled |-> FALSE, status |-> "created",
              persona_ids |-> <<>>, max_turns |-> 0, turn_delay |-> 0,
              message_count |-> 0, turn |-> 0, persona_id |-> "A",
              count_read |-> 0, cancel_pc |-> "none",
              attempts |-> 0, produced |-> 0, failed |-> 0,
              pause_turn |-> NoPause]

Init ==
  /\ personas \in PersonaStores
  /\ memories = [p \in PersonaIds |-> 0]
  /\ db = NoRow
  /\ messages = <<>>
  /\ completed = <<>>
  /\ tasks = [t \in TaskIds |-> NoTaskRec]
  /\ simulation_tasks = NoTask
  /\ ret = "none"
  /\ fails = 0
  /\ updates = 0
  /\ queues = [s \in Sessions |-> NoQueue]
  /\ message_status = [m \in MessageIds |-> "none"]
  /\ message_role = [m \in MessageIds |-> "none"]
  /\ clients = [c \in ClientIds |-> IdleClient]
  /\ memory = NoMemory
  /\ persona_rows = [r \in RowIds |-> NoName]
  /\ creators = [c \in CreatorIds |-> IdleCreator]
  /\ chat = "idle"
  /\ agent = NoAgent
  /\ advisers = [c \in AdviserIds |-> IdleAdviser]

\* ------------------------------------------------------------- helpers

\* the task ids asyncio.create_task has not handed out yet
FreeTasks == {t \in TaskIds : tasks[t].pc = "none"}

\* a task that has been created and has not returned
Live(t) == tasks[t].pc \notin {"none", "done"}
LiveTasks == {t \in TaskIds : Live(t)}

\* db_to_model with another default for max_turns
db_to_model_default_ten(row) ==
  [persona_ids |-> row.persona_ids,
   max_turns |-> IF row.max_turns = NoMaxTurns THEN 10 ELSE row.max_turns,
   turn_delay |-> IF row.turn_delay = 0 THEN DefaultTurnDelay
                  ELSE row.turn_delay,
   status |-> row.status,
   message_count |-> row.message_count]

\* SimulationService._db_to_model: the config read back from the row
db_to_model(row) ==
  [persona_ids |-> row.persona_ids,
   max_turns |-> IF row.max_turns = NoMaxTurns THEN DefaultMaxTurns
                 ELSE row.max_turns,
   turn_delay |-> IF row.turn_delay = 0 THEN DefaultTurnDelay
                  ELSE row.turn_delay,
   status |-> row.status,
   message_count |-> row.message_count]

\* single_persona_mode that never holds
single_persona_mode_never(ids) == Len(ids) < 1

\* _run_simulation, line 231
single_persona_mode(ids) == Len(ids) = 1

\* _run_simulation, lines 233-241

actual_max_turns(sim) ==
  IF sim.max_turns # NoMaxTurns THEN sim.max_turns
  ELSE IF Len(sim.persona_ids) > 1 THEN DefaultMaxTurns ELSE 1

\* persona_index that is one turn ahead
persona_index_off_by_one(turn, ids) == ((turn + 1) % Len(ids)) + 1

\* line 254-255: round robin (sequences are 1-based)
persona_index(turn, ids) == (turn % Len(ids)) + 1

\* line 251: the loop goes on only while the row says running
keeps_running(row) == row.exists /\ row.status = "running"

\* line 258
persona_usable(p) == personas[p] = "active"

\* line 333
sleeps_after(turn, delay) == turn > 1 \/ delay > SkipDelayBelow

\* line 339: the finally block looks at the snapshot taken at line 226
finally_completes(tk) == tk.status = "running"

\* lines 173-174
start_rejected(row) == row.status = "running"

\* pause_applies that also takes a paused session
pause_applies_also_paused(row) == row.status \in {"running", "paused"}

\* line 196
pause_applies(row) == row.status = "running"

\* the coroutine has returned: its locals are gone, the history counters stay
Done(tk) ==
  [NoTaskRec EXCEPT !.pc = "done", !.cancel_pc = tk.cancel_pc,
                    !.attempts = tk.attempts, !.produced = tk.produced,
                    !.failed = tk.failed]

\* asyncio.Task.cancel(): no effect on a task that has returned; otherwise
\* CancelledError is thrown into the task at the await it is suspended at
cancel(tk) ==
  IF tk.pc = "done" THEN tk
  ELSE [tk EXCEPT !.cancelled = TRUE, !.cancel_pc = tk.pc]

\* leaving the while loop: except CancelledError/finally, lines 336-341
ExitLoop(tk) ==
  IF finally_completes(tk)
  THEN [tk EXCEPT !.status = "completed", !.pc = "finally"]
  ELSE Done(tk)

\* line 244: while turn < max_turns
LoopTop(tk) ==
  IF tk.turn < tk.max_turns THEN [tk EXCEPT !.pc = "check"] ELSE ExitLoop(tk)

\* lines 316-334: the end of a turn that reached the generation
AfterTurn(tk) ==
  LET tk1 == [tk EXCEPT !.turn = @ + 1] IN
  IF single_persona_mode(tk.persona_ids)
  THEN [tk1 EXCEPT !.status = "paused", !.pc = "single_pause"]
  ELSE IF sleeps_after(tk1.turn, tk1.turn_delay)
       THEN [tk1 EXCEPT !.pc = "sleep"]
       ELSE LoopTop(tk1)


\* ------------------------------------------------------ request handlers

\* SimulationCreate, line 36 of models/simulation.py: min_items=1
create_invalid(ids) == Len(ids) = 0

\* create_unknown that looks at the first persona only
create_unknown_first_only(ids) ==
  Len(ids) > 0 /\ personas[ids[1]] = "missing"

\* create_simulation, lines 35-37: get_persona finds no row for some id
create_unknown(ids) == \E i \in 1..Len(ids) : personas[ids[i]] = "missing"

\* POST /simulations and SimulationService.create_simulation
create_simulation(ids, mt, td) ==
  /\ ~db.exists
  /\ IF create_invalid(ids)
     THEN /\ ret' = "ValidationError"
          /\ UNCHANGED db
     ELSE IF create_unknown(ids)
     THEN /\ ret' = "ValueError"
          /\ UNCHANGED db
     ELSE /\ db' = [exists |-> TRUE, persona_ids |-> ids, max_turns |-> mt,
                    turn_delay |-> td, status |-> "created",
                    message_count |-> 0, started_at |-> NoStamp,
                    completed_at |-> NoStamp]
          /\ ret' = "True"
  /\ UNCHANGED <<ovars, personas, memories, messages, completed, tasks,
                 simulation_tasks, fails, updates>>

\* start_outcome with started_at stamped before the status is looked at
start_outcome_stamps_first(row, now) ==
  IF ~row.exists THEN [ok |-> FALSE, row |-> row]
  ELSE IF start_rejected(row)
  THEN [ok |-> FALSE, row |-> [row EXCEPT !.started_at = now]]
  ELSE [ok |-> TRUE,
        row |-> [row EXCEPT !.status = "running", !.started_at = now]]

\* start_simulation, lines 164-178: the result and the row it commits
start_outcome(row, now) ==
  IF ~row.exists \/ start_rejected(row)
  THEN [ok |-> FALSE, row |-> row]
  ELSE [ok |-> TRUE,
        row |-> [row EXCEPT !.status = "running", !.started_at = now]]

\* SimulationService.start_simulation; the clients make at most limit calls
\* that are accepted and, with overlap = FALSE, make such a call only when
\* no earlier task is still alive
start_simulation(overlap, limit) ==
  LET t == Cardinality(TaskIds \ FreeTasks) + 1
      out == start_outcome(db, t)
  IN /\ db' = out.row
     /\ ret' = IF out.ok THEN "True" ELSE "False"
     /\ IF out.ok
        THEN /\ t \in TaskIds /\ t <= limit
             /\ overlap \/ LiveTasks = {}
             /\ tasks' = [tasks EXCEPT ![t] = [NoTaskRec EXCEPT !.pc = "load"]]
             /\ simulation_tasks' = t
        ELSE UNCHANGED <<tasks, simulation_tasks>>
     /\ UNCHANGED <<ovars, personas, memories, messages, completed, fails,
                    updates>>

\* SimulationService.pause_simulation; the tasks that are alive note the
\* turn they are in (history, no task reads it)
pause_simulation ==
  IF db.exists /\ pause_applies(db)
  THEN /\ db' = [db EXCEPT !.status = "paused"]
       /\ ret' = "True"
       /\ tasks' = [t \in TaskIds |->
                     IF Live(t) THEN [tasks[t] EXCEPT !.pause_turn = tasks[t].turn]
                     ELSE tasks[t]]
       /\ UNCHANGED <<ovars, personas, memories, messages, completed,
                      simulation_tasks, fails, updates>>
  ELSE /\ ret' = "False"
       /\ UNCHANGED <<ovars, personas, memories, db, messages, completed,
                      tasks, simulation_tasks, fails, updates>>

\* SimulationService.stop_simulation
stop_simulation ==
  /\ IF ~db.exists
     THEN /\ ret' = "False"
          /\ UNCHANGED <<db, tasks, simulation_tasks>>
     ELSE /\ db' = [db EXCEPT !.status = "completed",
                            !.completed_at = StopStamp]
          /\ IF simulation_tasks # NoTask
             THEN /\ tasks' = [tasks EXCEPT ![simulation_tasks] =
                                 cancel(@)]
                  /\ simulation_tasks' = NoTask
             ELSE UNCHANGED <<tasks, simulation_tasks>>
          /\ ret' = "True"
  /\ UNCHANGED <<ovars, personas, memories, messages, completed, fails,
                 updates>>

\* SimulationService.update_simulation with the status field set
update_simulation(s) ==
  /\ updates < MaxUpdates
  /\ updates' = updates + 1
  /\ IF ~db.exists
     THEN /\ ret' = "False"
          /\ UNCHANGED db
     ELSE /\ db' = [db EXCEPT !.status = s]
          /\ ret' = "True"
  /\ UNCHANGED <<ovars, personas, memories, messages, completed, tasks,
                 simulation_tasks, fails>>

\* ------------------------------------------- _run_simulation, step by step
\* a message row written by the task t in its turn k
Msg(t) == [persona_id |-> tasks[t].persona_id, role |-> "persona",
           task |-> t, turn |-> tasks[t].turn]

TaskFrame == <<ovars, personas, simulation_tasks, ret, updates>>

\* run_load with the turn index taken up where the session was left
run_load_resumes(t) ==
  /\ tasks[t].pc = "load" /\ ~tasks[t].cancelled
  /\ IF ~db.exists
     THEN tasks' = [tasks EXCEPT ![t] = Done(@)]
     ELSE LET sim == db_to_model(db) IN
          tasks' = [tasks EXCEPT ![t] = LoopTop(
                      [@ EXCEPT !.status = sim.status,
                                !.persona_ids = sim.persona_ids,
                                !.max_turns = actual_max_turns(sim),
                                !.turn_delay = sim.turn_delay,
                                !.message_count = sim.message_count,
                                !.turn = sim.message_count])]
  /\ UNCHANGED <<memories, db, messages, completed>> /\ UNCHANGED TaskFrame
  /\ UNCHANGED fails

\* line 226: get_simulation, and lines 231-241
run_load(t) ==
  /\ tasks[t].pc = "load" /\ ~tasks[t].cancelled
  /\ IF ~db.exists
     THEN tasks' = [tasks EXCEPT ![t] = Done(@)]
     ELSE LET sim == db_to_model(db) IN
          tasks' = [tasks EXCEPT ![t] = LoopTop(
                      [@ EXCEPT !.status = sim.status,
                                !.persona_ids = sim.persona_ids,
                                !.max_turns = actual_max_turns(sim),
                                !.turn_delay = sim.turn_delay,
                                !.message_count = sim.message_count,
                                !.turn = 0])]
  /\ UNCHANGED <<memories, db, messages, completed>> /\ UNCHANGED TaskFrame
  /\ UNCHANGED fails

\* lines 246-255: re-read the status, pick the persona
run_check(t) ==
  /\ tasks[t].pc = "check" /\ ~tasks[t].cancelled
  /\ tasks' = [tasks EXCEPT ![t] =
       IF ~keeps_running(db) THEN ExitLoop(@)
       ELSE [@ EXCEPT !.persona_id = tasks[t].persona_ids[
                        persona_index(tasks[t].turn, tasks[t].persona_ids)],
                      !.pc = "persona"]]
  /\ UNCHANGED <<memories, db, messages, completed>> /\ UNCHANGED TaskFrame
  /\ UNCHANGED fails

\* run_persona that takes the same turn again when the persona is not usable
run_persona_stalls(t) ==
  /\ tasks[t].pc = "persona" /\ ~tasks[t].cancelled
  /\ tasks' = [tasks EXCEPT ![t] =
       IF persona_usable(@.persona_id) THEN [@ EXCEPT !.pc = "generate"]
       ELSE LoopTop(@)]
  /\ UNCHANGED <<memories, db, messages, completed>> /\ UNCHANGED TaskFrame
  /\ UNCHANGED fails

\* lines 256-260: get_persona; a missing or inactive persona costs the turn
run_persona(t) ==
  /\ tasks[t].pc = "persona" /\ ~tasks[t].cancelled
  /\ tasks' = [tasks EXCEPT ![t] =
       IF persona_usable(@.persona_id) THEN [@ EXCEPT !.pc = "generate"]
       ELSE LoopTop([@ EXCEPT !.turn = @ + 1])]
  /\ UNCHANGED <<memories, db, messages, completed>> /\ UNCHANGED TaskFrame
  /\ UNCHANGED fails

\* run_generate_ok that queues the message before it is stored
run_generate_ok_skips_store(t) ==
  /\ tasks[t].pc = "generate" /\ ~tasks[t].cancelled
  /\ tasks' = [tasks EXCEPT ![t].attempts = @ + 1, ![t].pc = "queue"]
  /\ UNCHANGED <<memories, db, messages, completed>> /\ UNCHANGED TaskFrame
  /\ UNCHANGED fails

\* lines 263-273: history and llm_service.generate_response return
run_generate_ok(t) ==
  /\ tasks[t].pc = "generate" /\ ~tasks[t].cancelled
  /\ tasks' = [tasks EXCEPT ![t].attempts = @ + 1, ![t].pc = "store"]
  /\ UNCHANGED <<memories, db, messages, completed>> /\ UNCHANGED TaskFrame
  /\ UNCHANGED fails

\* run_generate_fail that tries the same turn again
run_generate_fail_retries(t) ==
  /\ tasks[t].pc = "generate" /\ ~tasks[t].cancelled
  /\ fails < MaxFails
  /\ fails' = fails + 1
  /\ tasks' = [tasks EXCEPT ![t] =
       LoopTop([@ EXCEPT !.attempts = @ + 1, !.failed = @ + 1])]
  /\ UNCHANGED <<memories, db, messages, completed>> /\ UNCHANGED TaskFrame

\* lines 270, 311-316: generate_response raises, the turn is skipped
run_generate_fail(t) ==
  /\ tasks[t].pc = "generate" /\ ~tasks[t].cancelled
  /\ fails < MaxFails
  /\ fails' = fails + 1
  /\ tasks' = [tasks EXCEPT ![t] =
       AfterTurn([@ EXCEPT !.attempts = @ + 1, !.failed = @ + 1])]
  /\ UNCHANGED <<memories, db, messages, completed>> /\ UNCHANGED TaskFrame

\* lines 276-287: message_service_db.create_message commits the row
run_store_ok(t) ==
  /\ tasks[t].pc = "store" /\ ~tasks[t].cancelled
  /\ messages' = Append(messages, Msg(t))
  /\ tasks' = [tasks EXCEPT ![t].produced = @ + 1, ![t].pc = "queue"]
  /\ UNCHANGED <<memories, db, completed>> /\ UNCHANGED TaskFrame
  /\ UNCHANGED fails

\* lines 283, 311-316: create_message raises, the turn is skipped
run_store_fail(t) ==
  /\ tasks[t].pc = "store" /\ ~tasks[t].cancelled
  /\ fails < MaxFails
  /\ fails' = fails + 1
  /\ tasks' = [tasks EXCEPT ![t] = AfterTurn([@ EXCEPT !.failed = @ + 1])]
  /\ UNCHANGED <<memories, db, messages, completed>> /\ UNCHANGED TaskFrame

\* line 290: queue_manager.add_completed_message
run_queue(t) ==
  /\ tasks[t].pc = "queue" /\ ~tasks[t].cancelled
  /\ completed' = Append(completed, Msg(t))
  /\ tasks' = [tasks EXCEPT ![t].pc = "count_read"]
  /\ UNCHANGED <<memories, db, messages>> /\ UNCHANGED TaskFrame
  /\ UNCHANGED fails

\* lines 293-298: select the row to count the message
run_count_read(t) ==
  /\ tasks[t].pc = "count_read" /\ ~tasks[t].cancelled
  /\ tasks' = [tasks EXCEPT ![t] =
       IF db.exists
       THEN [@ EXCEPT !.count_read = db.message_count, !.pc = "count_write"]
       ELSE [@ EXCEPT !.message_count = @ + 1, !.pc = "memory"]]
  /\ UNCHANGED <<memories, db, messages, completed>> /\ UNCHANGED TaskFrame
  /\ UNCHANGED fails

\* lines 299-302: commit message_count = the value read + 1
run_count_write(t) ==
  /\ tasks[t].pc = "count_write" /\ ~tasks[t].cancelled
  /\ db' = [db EXCEPT !.message_count = tasks[t].count_read + 1]
  /\ tasks' = [tasks EXCEPT ![t].message_count = @ + 1, ![t].pc = "memory"]
  /\ UNCHANGED <<memories, messages, completed>> /\ UNCHANGED TaskFrame
  /\ UNCHANGED fails

\* lines 305-309 and 316-334: persona_service.add_memory, end of the turn
run_memory(t) ==
  /\ tasks[t].pc = "memory" /\ ~tasks[t].cancelled
  /\ memories' = [memories EXCEPT ![tasks[t].persona_id] = @ + 1]
  /\ tasks' = [tasks EXCEPT ![t] = AfterTurn(@)]
  /\ UNCHANGED <<db, messages, completed>> /\ UNCHANGED TaskFrame
  /\ UNCHANGED fails

\* lines 319-330: single persona mode writes paused and breaks
run_single_pause(t) ==
  /\ tasks[t].pc = "single_pause" /\ ~tasks[t].cancelled
  /\ db' = IF db.exists THEN [db EXCEPT !.status = "paused"] ELSE db
  /\ tasks' = [tasks EXCEPT ![t] = ExitLoop(@)]
  /\ UNCHANGED <<memories, messages, completed>> /\ UNCHANGED TaskFrame
  /\ UNCHANGED fails

\* line 334: asyncio.sleep returns
run_sleep(t) ==
  /\ tasks[t].pc = "sleep" /\ ~tasks[t].cancelled
  /\ tasks' = [tasks EXCEPT ![t] = LoopTop(@)]
  /\ UNCHANGED <<memories, db, messages, completed>> /\ UNCHANGED TaskFrame
  /\ UNCHANGED fails

\* lines 342-351: the finally block writes completed
run_finally(t) ==
  /\ tasks[t].pc = "finally" /\ ~tasks[t].cancelled
  /\ db' = IF db.exists
           THEN [db EXCEPT !.status = "completed", !.completed_at = t]
           ELSE db
  /\ tasks' = [tasks EXCEPT ![t] = Done(@)]
  /\ UNCHANGED <<memories, messages, completed>> /\ UNCHANGED TaskFrame
  /\ UNCHANGED fails

\* the awaits inside the try block of lines 243-335
TryAwaits == {"check", "persona", "generate", "store", "queue", "count_read",
              "count_write", "memory", "single_pause", "sleep"}

\* on_cancelled with the CancelledError caught inside the loop body
on_cancelled_keeps_looping(tk) ==
  IF tk.pc \in TryAwaits THEN LoopTop([tk EXCEPT !.cancelled = FALSE])
  ELSE Done(tk)

\* CancelledError raised at the await the task is suspended at: inside the
\* try block it is caught at line 336 and the finally block runs; at line
\* 226 and inside the finally block it ends the task
on_cancelled(tk) ==
  IF tk.pc \in TryAwaits THEN ExitLoop([tk EXCEPT !.cancelled = FALSE])
  ELSE Done(tk)

run_cancelled(t) ==
  /\ Live(t) /\ tasks[t].cancelled
  /\ tasks' = [tasks EXCEPT ![t] = on_cancelled(@)]
  /\ UNCHANGED <<memories, db, messages, completed>> /\ UNCHANGED TaskFrame
  /\ UNCHANGED fails

\* one step of the task t when no CancelledError is pending
run_resumed(t) ==
  \/ run_load(t) \/ run_check(t) \/ run_persona(t)
  \/ run_generate_ok(t) \/ run_generate_fail(t)
  \/ run_store_ok(t) \/ run_store_fail(t)
  \/ run_queue(t) \/ run_count_read(t) \/ run_count_write(t)
  \/ run_memory(t) \/ run_single_pause(t) \/ run_sleep(t)
  \/ run_finally(t)

\* one step of the task t
run_simulation(t) == run_resumed(t) \/ run_cancelled(t)


\* ---------------------------------------------------- core/queue_manager
\* deque.append on a deque without maxlen
deque_append_unbounded(q, m, maxlen) == Append(q, m)

\* collections.deque(maxlen=max_size).append: a full deque drops its head
deque_append(q, m, maxlen) ==
  IF maxlen = 0 THEN <<>>
  ELSE IF Len(q) >= maxlen THEN Append(Tail(q), m)
  ELSE Append(q, m)

\* deque.pop: the newest entry
deque_pop(q) == [message |-> q[Len(q)], rest |-> SubSeq(q, 1, Len(q) - 1)]

\* deque.popleft: the oldest entry
deque_popleft(q) == [message |-> Head(q), rest |-> Tail(q)]

\* MessageQueue.enqueue, line 22
MessageQueue_enqueue(q, m) ==
  [q EXCEPT !.queue = deque_append(@, m, MaxQueueSize)]

\* dequeue that leaves the message in the pending queue
MessageQueue_dequeue_peeks(q) ==
  IF Len(q.queue) > 0
  THEN LET p == deque_popleft(q.queue) IN
       [q |-> [q EXCEPT !.processing = @ \cup {p.message}],
        ret |-> p.message]
  ELSE [q |-> q, ret |-> NoMessage]

\* MessageQueue.dequeue, lines 27-32: the queue left and the value returned
MessageQueue_dequeue(q) ==
  IF Len(q.queue) > 0
  THEN LET p == deque_popleft(q.queue) IN
       [q |-> [q EXCEPT !.queue = p.rest,
                        !.processing = @ \cup {p.message}],
        ret |-> p.message]
  ELSE [q |-> q, ret |-> NoMessage]

\* mark_completed that leaves the message in the in-flight mapping
MessageQueue_mark_completed_keeps(q, id) ==
  IF id \in q.processing
  THEN [q EXCEPT !.completed = Append(@, id)]
  ELSE q

\* MessageQueue.mark_completed, lines 37-40
MessageQueue_mark_completed(q, id) ==
  IF id \in q.processing
  THEN [q EXCEPT !.processing = @ \ {id}, !.completed = Append(@, id)]
  ELSE q

\* MessageQueue.mark_failed, lines 51-53
MessageQueue_mark_failed(q, id) ==
  IF id \in q.processing
  THEN [q EXCEPT !.processing = @ \ {id}]
  ELSE q

\* add_completed_message that puts the message first
MessageQueue_add_completed_message_first(q, m) ==
  [q EXCEPT !.completed = <<m>> \o @]

\* MessageQueue.add_completed_message, lines 45-46
MessageQueue_add_completed_message(q, m) ==
  [q EXCEPT !.completed = Append(@, m)]

\* MessageQueue.get_recent_messages, line 58: completed[-limit:]
MessageQueue_get_recent_messages(q, limit) ==
  IF limit > 0
  THEN IF limit >= Len(q.completed) THEN q.completed
       ELSE SubSeq(q.completed, Len(q.completed) - limit + 1,
                   Len(q.completed))
  ELSE q.completed

\* get_queue_stats, lines 120-124: queue_size, processing_count and
\* completed_count
MessageQueue_stats(q) ==
  <<Len(q.queue), Cardinality(q.processing), Len(q.completed)>>

\* the messages created so far, and the id the next one gets
Created == {m \in MessageIds : message_status[m] # "none"}
NextMessage == Cardinality(Created) + 1

\* the state of the scheduler and its session
svars == <<personas, memories, db, messages, completed, tasks,
           simulation_tasks, ret, fails, updates, chat>>

QueueFrame == <<svars, mvars, pvars, gvars>>

\* the second await of a method leaves the roles alone
MethodFrame == <<message_role, QueueFrame>>

\* get_queue that constructs a queue on every access
queue_for_always_new(q) == [NoQueue EXCEPT !.serial = q.serial + 1]

\* MessageQueueManager.get_queue, lines 83-85, for the entry q of the
\* session: constructed on the first access only
queue_for(q) ==
  IF q.serial = 0 THEN [NoQueue EXCEPT !.serial = 1] ELSE q

\* send_message of api/routes/chat.py, lines 39-42: a user message is added
\* as completed, any other message is enqueued
role_for(op) == IF op = "add_completed_message" THEN "user" ELSE "persona"

\* the first await of a method of MessageQueueManager, lines 87-115: the
\* caller c gets the queue of the session s; arg is the limit, the message
\* id or, for a message to add, the new Message (status pending, line 40 of
\* models/message.py)
get_queue(c, op, s, arg) ==
  LET new == op \in {"enqueue", "add_completed_message"} IN
  /\ clients[c].pc = "idle"
  /\ new => NextMessage \in MessageIds
  /\ queues' = [queues EXCEPT ![s] = queue_for(@)]
  /\ clients' = [clients EXCEPT ![c] =
       [pc |-> op, op |-> "none", session |-> s,
        arg |-> IF new THEN NextMessage ELSE arg,
        ref |-> queue_for(queues[s]).serial, ret |-> <<>>]]
  /\ message_status' = IF new
                        THEN [message_status EXCEPT ![NextMessage] = "pending"]
                        ELSE message_status
  /\ message_role' = IF new
                      THEN [message_role EXCEPT ![NextMessage] = role_for(op)]
                      ELSE message_role
  /\ UNCHANGED QueueFrame

\* the queue the caller c holds is the one the manager has for its session
Holds(c) == clients[c].ref = queues[clients[c].session].serial

\* the caller c returns: its locals are gone, op keeps the method it was in
Return(c, value) ==
  clients' = [clients EXCEPT ![c] = [IdleClient EXCEPT !.op = clients[c].pc,
                                                       !.ret = value]]

\* MessageQueueManager.enqueue_message, line 90
enqueue_message(c) ==
  LET s == clients[c].session
      m == clients[c].arg
  IN /\ clients[c].pc = "enqueue" /\ Holds(c)
     /\ queues' = [queues EXCEPT ![s] = MessageQueue_enqueue(@, m)]
     /\ Return(c, <<>>)
     /\ UNCHANGED message_status /\ UNCHANGED MethodFrame

\* MessageQueueManager.dequeue_message, line 95
dequeue_message(c) ==
  LET s == clients[c].session
      out == MessageQueue_dequeue(queues[s])
  IN /\ clients[c].pc = "dequeue" /\ Holds(c)
     /\ queues' = [queues EXCEPT ![s] = out.q]
     /\ message_status' = IF out.ret = NoMessage THEN message_status
                          ELSE [message_status EXCEPT
                                  ![out.ret] = "processing"]
     /\ Return(c, <<out.ret>>)
     /\ UNCHANGED MethodFrame

\* MessageQueueManager.mark_completed, line 100
mark_completed(c) ==
  LET s == clients[c].session
      id == clients[c].arg
  IN /\ clients[c].pc = "mark_completed" /\ Holds(c)
     /\ queues' = [queues EXCEPT ![s] = MessageQueue_mark_completed(@, id)]
     /\ message_status' = IF id \in queues[s].processing
                          THEN [message_status EXCEPT ![id] = "completed"]
                          ELSE message_status
     /\ Return(c, <<>>)
     /\ UNCHANGED MethodFrame

\* MessageQueueManager.mark_failed, line 110
mark_failed(c) ==
  LET s == clients[c].session
      id == clients[c].arg
  IN /\ clients[c].pc = "mark_failed" /\ Holds(c)
     /\ queues' = [queues EXCEPT ![s] = MessageQueue_mark_failed(@, id)]
     /\ message_status' = IF id \in queues[s].processing
                          THEN [message_status EXCEPT ![id] = "failed"]
                          ELSE message_status
     /\ Return(c, <<>>)
     /\ UNCHANGED MethodFrame

\* MessageQueueManager.add_completed_message, line 105
add_completed_message(c) ==
  LET s == clients[c].session
      m == clients[c].arg
  IN /\ clients[c].pc = "add_completed_message" /\ Holds(c)
     /\ queues' = [queues EXCEPT ![s] =
                     MessageQueue_add_completed_message(@, m)]
     /\ message_status' = [message_status EXCEPT ![m] = "completed"]
     /\ Return(c, <<>>)
     /\ UNCHANGED MethodFrame

\* MessageQueueManager.get_recent_messages, line 115
get_recent_messages(c) ==
  LET s == clients[c].session IN
  /\ clients[c].pc = "get_recent_messages" /\ Holds(c)
  /\ Return(c, MessageQueue_get_recent_messages(queues[s], clients[c].arg))
  /\ UNCHANGED <<queues, message_status>> /\ UNCHANGED MethodFrame

\* MessageQueueManager.get_queue_stats, lines 119-124
get_queue_stats(c) ==
  LET s == clients[c].session IN
  /\ clients[c].pc = "get_queue_stats" /\ Holds(c)
  /\ Return(c, MessageQueue_stats(queues[s]))
  /\ UNCHANGED <<queues, message_status>> /\ UNCHANGED MethodFrame

\* the second await of the mutating method the caller c is in
queue_method(c) ==
  \/ enqueue_message(c) \/ dequeue_message(c) \/ mark_completed(c)
  \/ mark_failed(c) \/ add_completed_message(c)


\* ------------------------------------- api/routes/chat.py, send_message
\* the user messages in the message store
UserMessages == SelectSeq(messages, LAMBDA m : m.role = "user")

\* the message row of the k-th user message of the session
UserMsg(k) == [persona_id |-> "user", role |-> "user", task |-> 0, turn |-> k]

ChatFrame == <<personas, memories, db, tasks, simulation_tasks, updates,
               qvars, mvars, pvars, gvars>>

\* lines 32-36: message_service_db.create_message commits the row
send_message_store_ok ==
  /\ chat = "idle" /\ Len(UserMessages) < MaxUserMessages
  /\ messages' = Append(messages, UserMsg(Len(UserMessages) + 1))
  /\ chat' = "stored"
  /\ UNCHANGED <<completed, ret, fails>> /\ UNCHANGED ChatFrame

\* lines 32-36: create_message raises, the request ends with an error
send_message_store_fail ==
  /\ chat = "idle" /\ Len(UserMessages) < MaxUserMessages
  /\ fails < MaxFails
  /\ fails' = fails + 1
  /\ ret' = "Exception"
  /\ UNCHANGED <<messages, completed, chat>> /\ UNCHANGED ChatFrame

\* lines 39-44: a user message is added to the queue as completed
send_message_queue ==
  /\ chat = "stored"
  /\ completed' = Append(completed, UserMsg(Len(UserMessages)))
  /\ chat' = "idle"
  /\ ret' = "Message"
  /\ UNCHANGED <<messages, fails>> /\ UNCHANGED ChatFrame

\* POST /chat/message with a user message for the session
send_message ==
  send_message_store_ok \/ send_message_store_fail \/ send_message_queue


\* ------------------------------------------------- models/persona.py
\* list[-n:] as Python computes it: the last n elements for n > 0, the whole
\* list for n = 0, the list without its first -n elements for n < 0
py_last(list, n) ==
  IF n > 0
  THEN IF n >= Len(list) THEN list
       ELSE SubSeq(list, Len(list) - n + 1, Len(list))
  ELSE IF -n >= Len(list) THEN <<>>
       ELSE SubSeq(list, 1 - n, Len(list))

\* line 40: the entries that move to long-term
important(list) == SelectSeq(list, LAMBDA m : m.importance >= ImportanceThreshold)

\* PersonaMemory.consolidate, lines 38-43
consolidate(mem, short_term_limit) ==
  IF Len(mem.short_term) > short_term_limit
  THEN [mem EXCEPT !.long_term = @ \o important(mem.short_term),
                   !.short_term = py_last(@, short_term_limit)]
  ELSE mem

MemoryFrame == <<svars, qvars, pvars, gvars>>

\* a new Memory entry; id numbers the entries in the order they were added
NewMemory(importance) == [id |-> memory.added + 1, importance |-> importance]

\* PersonaMemory.add_short_term, lines 28-29
add_short_term(importance) ==
  /\ memory.added < MaxMemories
  /\ memory' = [memory EXCEPT !.short_term = Append(@, NewMemory(importance)),
                              !.added = @ + 1]
  /\ UNCHANGED MemoryFrame

\* PersonaMemory.add_long_term, lines 33-34
add_long_term(importance) ==
  /\ memory.added < MaxMemories
  /\ memory' = [memory EXCEPT !.long_term = Append(@, NewMemory(importance)),
                              !.added = @ + 1]
  /\ UNCHANGED MemoryFrame

\* a call of PersonaMemory.consolidate
consolidate_call(short_term_limit) ==
  /\ memory.consolidated < MaxConsolidations
  /\ memory' = [consolidate(memory, short_term_limit)
                  EXCEPT !.consolidated = @ + 1]
  /\ UNCHANGED MemoryFrame

\* PersonaService.add_memory of services/persona_service.py, lines 99-118,
\* for a persona that exists: the entry is added, then the memory is
\* consolidated
add_memory(memory_type, importance) ==
  /\ memory.added < MaxAdded
  /\ memory' = consolidate(
       IF memory_type = "short_term"
       THEN [memory EXCEPT !.short_term = Append(@, NewMemory(importance)),
                           !.added = @ + 1]
       ELSE [memory EXCEPT !.long_term = Append(@, NewMemory(importance)),
                           !.added = @ + 1],
       SHORT_TERM_MEMORY_SIZE)
  /\ UNCHANGED MemoryFrame

\* ------------------------------------- services/persona_service_db.py
\* str.lower / ILIKE: the name with its case folded
lower(name) == IF name \in {"Ann", "ann"} THEN "ann" ELSE "bob"

\* the rows of table personas
Rows == {r \in RowIds : persona_rows[r] # NoName}

\* select(PersonaDB).where(PersonaDB.name.ilike(name)), lines 52-53
ilike(name) == {r \in Rows : lower(persona_rows[r]) = lower(name)}

\* persona_name_exists, lines 51-54: scalar_one_or_none raises
\* MultipleResultsFound when more than one row matches
persona_name_exists(name) ==
  IF Cardinality(ilike(name)) > 1 THEN "raises"
  ELSE IF ilike(name) # {} THEN "yes" ELSE "no"

PersonaFrame == <<svars, qvars, mvars, gvars>>

\* the requests that will insert a row once they commit
Committing == {c \in CreatorIds : creators[c].pc = "commit"}

\* POST /personas, line 27 of api/routes/personas.py: the route's own check;
\* the table of the model has room for the row
create_persona_route(c, name) ==
  /\ creators[c].pc = "idle"
  /\ Cardinality(Rows) + Cardinality(Committing) < MaxPersonaRows
  /\ creators' = [creators EXCEPT ![c] =
       IF persona_name_exists(name) = "no"
       THEN [pc |-> "service", name |-> name]
       ELSE [pc |-> "idle", name |-> NoName]]
  /\ UNCHANGED persona_rows /\ UNCHANGED PersonaFrame

\* PersonaServiceDB.create_persona, lines 77-89: the count and name checks
create_persona_check(c) ==
  /\ creators[c].pc = "service"
  /\ creators' = [creators EXCEPT ![c] =
       IF Cardinality(Rows) >= MAX_PERSONAS
          \/ persona_name_exists(creators[c].name) # "no"
       THEN [pc |-> "idle", name |-> NoName]
       ELSE [@ EXCEPT !.pc = "commit"]]
  /\ UNCHANGED persona_rows /\ UNCHANGED PersonaFrame

\* PersonaServiceDB.create_persona, lines 92-105: the insert is committed
create_persona_commit(c) ==
  /\ creators[c].pc = "commit"
  /\ \E r \in RowIds \ Rows :
       /\ \A r2 \in RowIds \ Rows : r <= r2
       /\ persona_rows' = [persona_rows EXCEPT ![r] = creators[c].name]
  /\ creators' = [creators EXCEPT ![c] = [pc |-> "idle", name |-> NoName]]
  /\ UNCHANGED PersonaFrame

\* PersonaServiceDB.update_persona with the name field set, lines 141-153
update_persona(r, name) ==
  /\ r \in Rows
  /\ persona_rows' = [persona_rows EXCEPT ![r] = name]
  /\ UNCHANGED creators /\ UNCHANGED PersonaFrame

\* PersonaServiceDB.delete_persona, lines 161-170
delete_persona(r) ==
  /\ r \in Rows
  /\ persona_rows' = [persona_rows EXCEPT ![r] = NoName]
  /\ UNCHANGED creators /\ UNCHANGED PersonaFrame

\* ------------------------------------- services/global_agent_service.py
AdviceFrame == <<svars, qvars, mvars, pvars>>

\* lines 161-169: the context and the prompt are built and the request for
\* the advice is sent; extract says whether len(all_messages) > 10
get_advice_begin(c, extract) ==
  /\ advisers[c].pc = "idle"
  /\ Len(agent.conversation_history)
       + Cardinality({d \in AdviserIds : advisers[d].pc = "advice"})
         < MaxAdvice
  /\ advisers' = [advisers EXCEPT ![c] =
       [IdleAdviser EXCEPT !.pc = "advice", !.extract = extract]]
  /\ UNCHANGED agent /\ UNCHANGED AdviceFrame

\* lines 190-205: the history entry and the short-term memory of a call
recorded(ag) ==
  LET n == Len(ag.conversation_history) + 1 IN
  [ag EXCEPT !.conversation_history = Append(@, n),
             !.short_term = Append(@, [id |-> n, importance |-> 5])]

\* lines 211-216: consolidate, then return the advice
get_advice_return(c, ag, insight) ==
  /\ agent' = consolidate(ag, AgentShortTermLimit)
  /\ advisers' = [advisers EXCEPT ![c] =
       [IdleAdviser EXCEPT !.insight = insight, !.ret = "advice"]]

\* lines 169-209: the stream of the advice ends; the call is recorded and,
\* for a long conversation, the request for the insight is sent
get_advice_generated(c) ==
  LET entry == Len(agent.conversation_history) + 1 IN
  /\ advisers[c].pc = "advice"
  /\ IF advisers[c].extract
     THEN /\ agent' = recorded(agent)
          /\ advisers' = [advisers EXCEPT ![c] =
               [@ EXCEPT !.pc = "insight", !.entry = entry]]
     ELSE get_advice_return(c, recorded(agent), "none")
  /\ UNCHANGED AdviceFrame

\* lines 218-220: the request or the stream of the advice raises
get_advice_failed(c) ==
  /\ advisers[c].pc = "advice"
  /\ advisers' = [advisers EXCEPT ![c] = [IdleAdviser EXCEPT !.ret = "apology"]]
  /\ UNCHANGED agent /\ UNCHANGED AdviceFrame

\* extract_insights_failed with the exception passed on to get_advice,
\* whose handler of line 218 returns the apology
extract_insights_failed_surfaces(c) ==
  /\ advisers[c].pc = "insight"
  /\ advisers' = [advisers EXCEPT ![c] =
       [IdleAdviser EXCEPT !.insight = "failed", !.ret = "apology"]]
  /\ UNCHANGED agent /\ UNCHANGED AdviceFrame

\* _extract_insights, lines 274-276: the request or the stream of the
\* insight raises; get_advice goes on at line 211
extract_insights_failed(c) ==
  /\ advisers[c].pc = "insight"
  /\ get_advice_return(c, agent, "failed")
  /\ UNCHANGED AdviceFrame

\* _extract_insights, lines 263-270: the insight goes to long-term memory
\* with importance 0.8 (its text is not modelled); get_advice goes on at
\* line 211
extract_insights(c) ==
  /\ advisers[c].pc = "insight"
  /\ get_advice_return(c,
       [agent EXCEPT !.long_term = Append(@, [id |-> 0, importance |-> 8])],
       "stored")
  /\ UNCHANGED AdviceFrame

\* GlobalAgentService.get_advice, step by step
get_advice(c) ==
  \/ \E extract \in BOOLEAN : get_advice_begin(c, extract)
  \/ get_advice_generated(c) \/ get_advice_failed(c)
  \/ extract_insights(c) \/ extract_insights_failed(c)

\* PersonaServiceDB.delete_persona, lines 158-170, for a persona the
\* sessions name: the row goes, and its memories with it (the cascade of
\* line 51 of database/models.py)
delete_persona_id(p) ==
  /\ personas[p] # "missing"
  /\ personas' = [personas EXCEPT ![p] = "missing"]
  /\ memories' = [memories EXCEPT ![p] = 0]
  /\ UNCHANGED <<ovars, db, messages, completed, tasks, simulation_tasks,
                 ret, fails, updates>>

\* ------------------------------------------------------- specifications
ConfiguredTurns == 1..MaxTurnsCfg
RunTurns == {NoMaxTurns} \cup (1..MaxTurnsRun)

\* The service with clients that start the session at most MaxStarts times,
\* and again only after its earlier task has returned.
Next ==
  \/ \E ids \in PersonaLists, mt \in ConfiguredTurns, td \in TurnDelays :
       create_simulation(ids, mt, td)
  \/ start_simulation(FALSE, MaxStarts)
  \/ pause_simulation
  \/ stop_simulation
  \/ \E t \in TaskIds : run_simulation(t)

Spec == Init /\ [][Next]_vars

\* The same, with clients that also write the status through PUT.
NextUpdate ==
  \/ Next
  \/ \E s \in SimulationStatus : update_simulation(s)

SpecUpdate == Init /\ [][NextUpdate]_vars

\* Start, pause and stop in any order, also while earlier tasks are alive.
NextRace ==
  \/ \E ids \in PersonaLists, mt \in ConfiguredTurns, td \in TurnDelays :
       create_simulation(ids, mt, td)
  \/ start_simulation(TRUE, MaxTasks)
  \/ pause_simulation
  \/ stop_simulation
  \/ \E t \in TaskIds : run_simulation(t)

SpecRace == Init /\ [][NextRace]_vars

\* Runs that nobody pauses, stops or updates, with and without max_turns.
NextRun ==
  \/ \E ids \in PersonaLists, mt \in RunTurns, td \in TurnDelays :
       create_simulation(ids, mt, td)
  \/ start_simulation(TRUE, MaxTasks)
  \/ \E t \in TaskIds : run_resumed(t)

SpecRun == Init /\ [][NextRun]_vars

\* the messages in the in-flight mapping of some session
Processing == UNION {queues[s].processing : s \in Sessions}

\* a method call of the caller c: a message is enqueued or added once, right
\* after it is created, and at most limit messages are; the ids marked are
\* ids of dequeued messages, for their own or for another session
queue_call(c, limit) ==
  \E s \in Sessions :
    \/ \E op \in {"enqueue", "add_completed_message"} :
         NextMessage <= limit /\ get_queue(c, op, s, 0)
    \/ get_queue(c, "dequeue", s, 0)
    \/ \E op \in {"mark_completed", "mark_failed"}, m \in Processing :
         get_queue(c, op, s, m)

\* a call of get_recent_messages by the caller c
queue_read(c) ==
  \E s \in Sessions, lim \in Limits :
    get_queue(c, "get_recent_messages", s, lim)

\* a call of mark_completed or mark_failed by the caller c with the id of any
\* message, in flight or not
queue_mark(c) ==
  \E s \in Sessions, op \in {"mark_completed", "mark_failed"},
     m \in MessageIds :
    get_queue(c, op, s, m)

\* a call of get_queue_stats by the caller c
queue_stats(c) == \E s \in Sessions : get_queue(c, "get_queue_stats", s, 0)

\* the queue manager's callers do not look at the personas
InitQueue == Init /\ personas = [p \in PersonaIds |-> "active"]

\* The queue manager with a caller that makes one method call at a time.
NextQueue ==
  \/ queue_call(1, MaxMessages)
  \/ queue_read(1)
  \/ queue_method(1)
  \/ get_recent_messages(1)

SpecQueue == InitQueue /\ [][NextQueue]_vars

\* The same caller, who also marks messages that are not in flight and asks
\* for the statistics.
NextQueueStats ==
  \/ queue_call(1, MaxMessages)
  \/ queue_mark(1)
  \/ queue_stats(1)
  \/ queue_method(1)
  \/ get_queue_stats(1)

SpecQueueStats == InitQueue /\ [][NextQueueStats]_vars

\* The queue manager with callers whose calls of the mutating methods
\* interleave at the awaits, for MaxRaceMessages messages.
NextQueueRace ==
  \/ \E c \in ClientIds : queue_call(c, MaxRaceMessages)
  \/ \E c \in ClientIds : queue_method(c)

SpecQueueRace == InitQueue /\ [][NextQueueRace]_vars

\* A PersonaMemory object whose methods are called in any order.
NextMemory ==
  \/ \E i \in Importances : add_short_term(i)
  \/ add_long_term(ImportanceThreshold)
  \/ \E n \in ShortTermLimits : consolidate_call(n)

SpecMemory == InitQueue /\ [][NextMemory]_vars

\* The persona table with create requests that interleave at their awaits
\* and with update and delete requests.
NextPersona ==
  \/ \E c \in CreatorIds, name \in Names : create_persona_route(c, name)
  \/ \E c \in CreatorIds : create_persona_check(c)
  \/ \E c \in CreatorIds : create_persona_commit(c)
  \/ \E r \in RowIds, name \in Names : update_persona(r, name)
  \/ \E r \in RowIds : delete_persona(r)

SpecPersona == InitQueue /\ [][NextPersona]_vars

\* Runs that nobody pauses or stops, with a user who posts messages to the
\* session while they run.
NextChat ==
  \/ \E ids \in PersonaLists, mt \in ConfiguredTurns, td \in TurnDelays :
       create_simulation(ids, mt, td)
  \/ start_simulation(FALSE, MaxStarts)
  \/ \E t \in TaskIds : run_resumed(t)
  \/ send_message

SpecChat == Init /\ [][NextChat]_vars

\* Runs that nobody pauses or stops, while personas are deleted; every task
\* is resumed whenever the operation it awaits has returned.
NextFair ==
  \/ \E ids \in PersonaLists, mt \in ConfiguredTurns, td \in TurnDelays :
       create_simulation(ids, mt, td)
  \/ start_simulation(FALSE, MaxStarts)
  \/ \E t \in TaskIds : run_resumed(t)
  \/ \E p \in PersonaIds : delete_persona_id(p)

SpecFair ==
  Init /\ [][NextFair]_vars /\ \A t \in TaskIds : WF_vars(run_resumed(t))

\* The global agent with requests for advice that interleave at their awaits.
NextAdvice == \E c \in AdviserIds : get_advice(c)

SpecAdvice == InitQueue /\ [][NextAdvice]_vars

\* Sessions that are paused and started again after their task has returned.
NextRestart ==
  \/ \E ids \in PersonaLists, mt \in ConfiguredTurns, td \in TurnDelays :
       create_simulation(ids, mt, td)
  \/ start_simulation(FALSE, MaxTasks)
  \/ pause_simulation
  \/ \E t \in TaskIds : run_resumed(t)

SpecRestart == Init /\ [][NextRestart]_vars

\* A persona of the in-memory persona service that is given memories.
NextAddMemory ==
  \/ \E i \in MemoryImportances : add_memory("short_term", i)
  \/ add_memory("long_term", ImportanceThreshold)

SpecAddMemory == InitQueue /\ [][NextAddMemory]_vars

\* =============================================================== claims
\* what the handlers and the tasks can change besides ret
Effects == <<db, tasks, simulation_tasks, messages, completed, memories>>

\* the awaits of a turn, after the status check and before the sleep
TurnAwaits == {"persona", "generate", "store", "queue", "count_read",
               "count_write", "memory"}

\* C1: once a session with two or more personas is paused, its status stays
\* paused until a start or stop call: no step of the scheduler changes it.
C1_PausedUntilStartOrStop ==
  [][(db.exists /\ Len(db.persona_ids) >= 2 /\ db.status = "paused"
        /\ db'.status # "paused")
     => (start_simulation(TRUE, MaxTasks) \/ stop_simulation)]_vars

\* C3: at most one task of the session is inside a turn at any time.
C3_OneTaskInATurn ==
  Cardinality({t \in TaskIds : tasks[t].pc \in TurnAwaits}) <= 1

\* C4: start_simulation on a completed or failed session returns False,
\* leaves the row unchanged and creates no task.
C4_StartRejectedWhenTerminal ==
  [][(start_simulation(TRUE, MaxTasks) /\ db.exists
        /\ db.status \in {"completed", "failed"})
     => (ret' = "False" /\ UNCHANGED <<db, tasks, simulation_tasks>>)]_vars

\* C5: start_simulation on a running session returns False and changes
\* neither the row (status, started_at, message_count) nor the task map, and
\* creates no task.
C5_StartOnRunningIsNoOp ==
  [][(start_simulation(TRUE, MaxTasks) /\ db.exists /\ db.status = "running")
     => (ret' = "False" /\ UNCHANGED Effects)]_vars

\* a start call was rejected on a running session whose task is alive
C5_Witness ==
  /\ db.exists /\ db.status = "running" /\ ret = "False"
  /\ simulation_tasks # NoTask /\ Live(simulation_tasks)

\* the edges of the session state machine
StatusEdges == {<<"created", "running">>, <<"running", "paused">>,
                <<"running", "completed">>, <<"running", "failed">>,
                <<"paused", "running">>, <<"paused", "completed">>}

\* C6: every change of the durable status follows an edge of the state
\* machine; completed and failed are never left.
C6_StatusFollowsEdges ==
  [][(db.exists /\ db'.status # db.status)
     => <<db.status, db'.status>> \in StatusEdges]_vars

\* C7: pause_simulation on a session that is not running returns False and
\* changes nothing of the session.
C7_PauseOnlyWhenRunning ==
  [][(pause_simulation /\ ~(db.exists /\ db.status = "running"))
     => (ret' = "False" /\ UNCHANGED Effects)]_vars

\* a pause call was rejected on a paused session of two personas
C7_Witness ==
  /\ db.exists /\ Len(db.persona_ids) >= 2
  /\ db.status = "paused" /\ ret = "False"

\* the task started last has returned
Latest(t) == db.exists /\ simulation_tasks = t /\ tasks[t].pc = "done"

\* every persona of the session exists and is active
AllActive ==
  \A i \in 1..Len(db.persona_ids) : personas[db.persona_ids[i]] = "active"

\* the rows the task t wrote to the message store, in order
TaskMessages(t) == SelectSeq(messages, LAMBDA m : m.task = t)

\* C2 as stated: a run of a single persona session makes exactly one
\* generation attempt and ends paused, with one message unless the turn
\* failed, and message_count in {0,1}.
C2_SinglePersonaOneShot ==
  \A t \in TaskIds :
    (Latest(t) /\ Len(db.persona_ids) = 1)
    => /\ tasks[t].attempts = 1
       /\ db.status = "paused"
       /\ Len(TaskMessages(t)) = 1 - tasks[t].failed
       /\ db.message_count \in {0, 1}

\* C2 amended: an uninterrupted run of a single persona session whose
\* persona is active makes exactly one generation attempt and ends paused;
\* it stores one message unless the turn failed, and message_count counts
\* the messages of all runs so far.
C2_SinglePersonaOneShotActive ==
  \A t \in TaskIds :
    (Latest(t) /\ Len(db.persona_ids) = 1 /\ AllActive)
    => /\ tasks[t].attempts = 1
       /\ db.status = "paused"
       /\ Len(TaskMessages(t)) = 1 - tasks[t].failed
       /\ tasks[t].produced = Len(TaskMessages(t))
       /\ db.message_count = Len(messages)

\* a single persona run with max_turns above 1 has ended after one message
C2_Witness ==
  \E t \in TaskIds :
    /\ Latest(t) /\ Len(db.persona_ids) = 1 /\ AllActive
    /\ db.max_turns > 1 /\ Len(TaskMessages(t)) = 1 /\ db.status = "paused"

\* C8: an uninterrupted run of N >= 2 active personas with max_turns = M in
\* which nothing fails stores exactly M messages, the k-th by
\* persona_ids[k mod N], and leaves the status completed.
C8_RoundRobinRun ==
  \A t \in TaskIds :
    (Latest(t) /\ Len(db.persona_ids) >= 2 /\ AllActive
       /\ db.max_turns # NoMaxTurns /\ tasks[t].failed = 0)
    => LET ms == TaskMessages(t)
           n == Len(db.persona_ids)
       IN /\ Len(ms) = db.max_turns
          /\ \A k \in 0..(Len(ms) - 1) :
               /\ ms[k + 1].persona_id = db.persona_ids[(k % n) + 1]
               /\ ms[k + 1].role = "persona"
          /\ db.status = "completed"

\* a run of two personas and three turns has completed
C8_Witness ==
  \E t \in TaskIds :
    /\ Latest(t) /\ Len(db.persona_ids) = 2 /\ AllActive
    /\ db.max_turns = MaxTurnsRun /\ tasks[t].failed = 0
    /\ Len(TaskMessages(t)) = MaxTurnsRun /\ db.status = "completed"

\* C9 as stated: an uninterrupted run of N >= 2 active personas without
\* max_turns stores exactly 20 messages.
C9_DefaultTwentyMessages ==
  \A t \in TaskIds :
    (Latest(t) /\ Len(db.persona_ids) >= 2 /\ AllActive
       /\ db.max_turns = NoMaxTurns)
    => Len(TaskMessages(t)) = DefaultMaxTurns

\* C9 amended: such a run makes exactly 20 turns and stores one message for
\* each turn that did not fail, so exactly 20 when none fails.
C9_DefaultTwentyTurns ==
  \A t \in TaskIds :
    (Latest(t) /\ Len(db.persona_ids) >= 2 /\ AllActive
       /\ db.max_turns = NoMaxTurns)
    => /\ Len(TaskMessages(t)) + tasks[t].failed = DefaultMaxTurns
       /\ tasks[t].failed = 0 => Len(TaskMessages(t)) = DefaultMaxTurns

\* a run without max_turns has ended after 20 messages
C9_Witness ==
  \E t \in TaskIds :
    /\ Latest(t) /\ Len(db.persona_ids) >= 2 /\ AllActive
    /\ db.max_turns = NoMaxTurns /\ tasks[t].failed = 0
    /\ Len(TaskMessages(t)) = DefaultMaxTurns

\* C10: stop_simulation returns True, writes completed and removes the task
\* handle; a task it cancelled in its sleep then ends without storing,
\* queueing or counting a message, without adding a memory, and without
\* taking the status away from completed.
C10_StoppedInSleepAddsNothing ==
  [][/\ (stop_simulation /\ db.exists)
          => /\ ret' = "True" /\ db'.status = "completed"
             /\ simulation_tasks' = NoTask
     /\ \A t \in TaskIds :
          (tasks[t].cancel_pc = "sleep" /\ run_simulation(t))
          => /\ UNCHANGED <<messages, completed, memories>>
             /\ db'.message_count = db.message_count
             /\ tasks'[t].pc \in {"finally", "done"}
             /\ (db.status = "completed" => db'.status = "completed")]_vars

\* a task that stop_simulation cancelled in its sleep has returned
C10_Witness ==
  \E t \in TaskIds :
    /\ tasks[t].pc = "done" /\ tasks[t].cancel_pc = "sleep"
    /\ tasks[t].produced >= 1
    /\ db.status = "completed" /\ simulation_tasks = NoTask

\* ------------------------------------------------- queue manager claims
\* the session and the queue the caller c is working on
SessionOf(c) == clients[c].session
QueueOf(c) == queues[clients[c].session]

\* the messages that are in no pending queue and with no caller
Pending(s) == {queues[s].queue[i] : i \in 1..Len(queues[s].queue)}
InFlight == {clients[c].arg : c \in {d \in ClientIds : clients[d].pc
                                       \in {"enqueue", "add_completed_message"}}}

\* C11: a pending queue never holds more than its capacity; enqueue is never
\* blocked, on a full queue it drops exactly the oldest pending entry and
\* appends the new one, and it leaves the in-flight mapping and the completed
\* list unchanged.
C11_BoundedPendingEvictsOldest ==
  /\ [](\A s \in Sessions : Len(queues[s].queue) <= MaxQueueSize)
  /\ [](\A c \in ClientIds :
          clients[c].pc = "enqueue" => ENABLED enqueue_message(c))
  /\ [][\A c \in ClientIds :
          enqueue_message(c) =>
            LET q == QueueOf(c)
                q2 == queues'[SessionOf(c)]
                m == clients[c].arg
            IN /\ q2.queue = IF Len(q.queue) = MaxQueueSize
                             THEN Append(Tail(q.queue), m)
                             ELSE Append(q.queue, m)
               /\ q2.processing = q.processing
               /\ q2.completed = q.completed]_vars

\* a full queue has lost its oldest pending message to a later enqueue
C11_Witness ==
  \E s \in Sessions, m \in MessageIds :
    /\ Len(queues[s].queue) = MaxQueueSize
    /\ message_status[m] = "pending" /\ m \notin InFlight
    /\ \A s2 \in Sessions : m \notin Pending(s2)
    /\ m < Head(queues[s].queue)
    /\ clients[1].op = "enqueue"

\* C12: dequeue on a non-empty pending queue returns the message enqueued
\* first, removes it from the queue, sets its status to processing and puts
\* it in the in-flight mapping; on an empty queue it returns none and
\* changes nothing.
C12_DequeueOldestFirst ==
  [][\A c \in ClientIds :
       dequeue_message(c) =>
         LET q == QueueOf(c)
             q2 == queues'[SessionOf(c)]
         IN IF Len(q.queue) > 0
            THEN LET m == Head(q.queue) IN
                 /\ \A x \in Pending(SessionOf(c)) : m <= x
                 /\ clients'[c].ret = <<m>>
                 /\ q2.queue = Tail(q.queue)
                 /\ message_status'[m] = "processing"
                 /\ q2.processing = q.processing \cup {m}
                 /\ q2.completed = q.completed
            ELSE /\ clients'[c].ret = <<NoMessage>>
                 /\ UNCHANGED <<queues, message_status>>]_vars

\* dequeue has returned the older of two pending messages
C12_Witness ==
  \E s \in Sessions, m \in MessageIds :
    /\ clients[1].pc = "idle" /\ clients[1].op = "dequeue"
    /\ clients[1].ret = <<m>>
    /\ m \in queues[s].processing /\ message_status[m] = "processing"
    /\ Len(queues[s].queue) > 0 /\ m < Head(queues[s].queue)

\* C13: mark_failed of a message in the in-flight mapping removes it from
\* the mapping, sets its status to failed and appends it to the completed
\* list.
C13_MarkFailedAppends ==
  [][\A c \in ClientIds :
       (mark_failed(c) /\ clients[c].arg \in QueueOf(c).processing) =>
         LET q == QueueOf(c)
             q2 == queues'[SessionOf(c)]
             m == clients[c].arg
         IN /\ q2.processing = q.processing \ {m}
            /\ message_status'[m] = "failed"
            /\ q2.completed = Append(q.completed, m)
            /\ Len(q2.completed) = Len(q.completed) + 1]_vars

\* C14: mark_completed of a message in the in-flight mapping removes it from
\* the mapping, sets its status to completed and appends it as the last
\* element of the completed list; the pending queue is unchanged.
C14_MarkCompletedAppends ==
  [][\A c \in ClientIds :
       (mark_completed(c) /\ clients[c].arg \in QueueOf(c).processing) =>
         LET q == QueueOf(c)
             q2 == queues'[SessionOf(c)]
             m == clients[c].arg
         IN /\ q2.processing = q.processing \ {m}
            /\ message_status'[m] = "completed"
            /\ q2.completed = Append(q.completed, m)
            /\ q2.queue = q.queue]_vars

\* mark_completed has moved a dequeued message (only an enqueued message has
\* the role persona) behind an earlier completed one, while another message
\* is pending
C14_Witness ==
  \E s \in Sessions :
    LET done == queues[s].completed IN
    /\ clients[1].pc = "idle" /\ clients[1].op = "mark_completed"
    /\ Len(done) >= 2
    /\ message_role[done[Len(done)]] = "persona"
    /\ message_status[done[Len(done)]] = "completed"
    /\ done[Len(done)] \notin queues[s].processing
    /\ Len(queues[s].queue) > 0

\* C15: add_completed_message leaves the pending queue and the in-flight
\* mapping unchanged, sets the message status to completed and appends the
\* message as the last element of the completed list, so that
\* get_recent_messages returns it last for every limit.
C15_AddCompletedIsLast ==
  [][\A c \in ClientIds :
       /\ add_completed_message(c) =>
            LET q == QueueOf(c)
                q2 == queues'[SessionOf(c)]
                m == clients[c].arg
            IN /\ q2.queue = q.queue /\ q2.processing = q.processing
               /\ message_status'[m] = "completed"
               /\ q2.completed = Append(q.completed, m)
               /\ \A lim \in Limits \cup {-1} :
                    LET r == MessageQueue_get_recent_messages(q2, lim)
                    IN Len(r) > 0 /\ r[Len(r)] = m
       /\ (get_recent_messages(c) /\ Len(QueueOf(c).completed) > 0) =>
            LET r == clients'[c].ret
                done == QueueOf(c).completed
            IN Len(r) > 0 /\ r[Len(r)] = done[Len(done)]]_vars

\* get_recent_messages has returned, last, a message that was added as
\* completed to a session with a pending and an in-flight message
C15_Witness ==
  \E s \in Sessions :
    LET done == queues[s].completed
        r == clients[1].ret
    IN /\ clients[1].pc = "idle" /\ clients[1].op = "get_recent_messages"
       /\ Len(done) > 0 /\ message_role[done[Len(done)]] = "user"
       /\ Len(r) > 0 /\ r[Len(r)] = done[Len(done)]
       /\ Len(queues[s].queue) > 0 /\ queues[s].processing # {}

\* C16: one queue is constructed per session and every caller works on it,
\* also when the first accesses interleave; a method of the queue manager
\* called for one session leaves the queue of every other session unchanged.
C16_SessionsIndependent ==
  /\ [](\A s \in Sessions : queues[s].serial <= 1)
  /\ [](\A c \in ClientIds : clients[c].pc # "idle" => Holds(c))
  /\ [][\A c \in ClientIds, s \in Sessions :
          /\ (queue_method(c) /\ s # SessionOf(c)) => queues'[s] = queues[s]
          /\ (clients[c].pc = "idle" /\ clients'[c].pc # "idle") =>
               /\ s # clients'[c].session => queues'[s] = queues[s]
               /\ queues[s].serial = 1 => queues'[s] = queues[s]]_vars

\* two callers hold the queue of one session that both accessed before it
\* had any message, while the other session has messages
C16_Witness ==
  \E s, s2 \in Sessions :
    /\ s # s2
    /\ \A c \in ClientIds : clients[c].pc # "idle" /\ clients[c].session = s
    /\ queues[s] = [NoQueue EXCEPT !.serial = 1]
    /\ \A c \in ClientIds : clients[c].ref = 1
    /\ Len(queues[s2].completed) > 0

\* ------------------------------------------------- persona claims
\* C17: consolidate(limit) on a memory with more than limit short-term
\* entries appends to long-term exactly the short-term entries of importance
\* >= 0.7, in their order, and leaves in short-term exactly its most recent
\* limit entries.
C17_ConsolidateKeepsLastLimit ==
  [][\A n \in ShortTermLimits :
       (consolidate_call(n) /\ Len(memory.short_term) > n) =>
         LET st == memory.short_term
             qualifying == {i \in 1..Len(st) :
                              st[i].importance >= ImportanceThreshold}
             moved == SubSeq(memory'.long_term, Len(memory.long_term) + 1,
                             Len(memory'.long_term))
         IN /\ Len(memory'.long_term)
                 = Len(memory.long_term) + Cardinality(qualifying)
            /\ SubSeq(memory'.long_term, 1, Len(memory.long_term))
                 = memory.long_term
            /\ \A k \in 1..Len(moved) :
                 /\ moved[k].importance >= ImportanceThreshold
                 /\ \E i \in qualifying : st[i] = moved[k]
                 /\ \A j \in 1..(k - 1) : moved[j].id < moved[k].id
            /\ Len(memory'.short_term) = n
            /\ \A k \in 1..n :
                 memory'.short_term[k] = st[Len(st) - n + k]]_vars

\* C18: no two rows of table personas have names that are equal ignoring
\* case.
C18_NamesUniqueIgnoringCase ==
  \A r1, r2 \in Rows :
    r1 # r2 => lower(persona_rows[r1]) # lower(persona_rows[r2])

\* ------------------------------------------------- session claims
\* C19: create_simulation with an empty persona list or with the id of a
\* persona that does not exist is rejected with an error and changes
\* nothing: no session row, no queue, no task.
C19_CreateRejectedChangesNothing ==
  [][\A ids \in PersonaLists, mt \in ConfiguredTurns, td \in TurnDelays :
       (create_simulation(ids, mt, td)
          /\ (ids = <<>> \/ \E i \in 1..Len(ids) : personas[ids[i]] = "missing"))
       => /\ ret' \in {"ValidationError", "ValueError"}
          /\ UNCHANGED <<Effects, qvars>>]_vars

\* a create call naming a missing persona was rejected and left no row
C19_Witness ==
  /\ ret = "ValueError" /\ ~db.exists
  /\ \E p \in PersonaIds : personas[p] = "missing"
  /\ \A t \in TaskIds : tasks[t].pc = "none"
  /\ completed = <<>>

\* the rows of the message store
Stored == {messages[i] : i \in 1..Len(messages)}

\* C20: a message is written to the message store before it is added to the
\* session's queue: every message in the queue's completed list is in the
\* message store, and a turn whose generation or store write fails leaves
\* the queue unchanged.
C20_StoredBeforeQueued ==
  /\ [](\A i \in 1..Len(completed) : completed[i] \in Stored)
  /\ [][/\ \A t \in TaskIds :
            (run_store_fail(t) \/ run_generate_fail(t))
            => UNCHANGED <<completed, messages>>
        /\ \A t \in TaskIds : run_queue(t) => Msg(t) \in Stored
        /\ send_message_store_fail => UNCHANGED <<completed, messages>>]_vars

\* a task one of whose turns failed has stored a message that is not yet in
\* the queue, while the queue holds a user message
C20_Witness ==
  \E t \in TaskIds :
    /\ tasks[t].failed >= 1
    /\ tasks[t].pc = "queue" /\ Msg(t) \in Stored
    /\ \A i \in 1..Len(completed) : completed[i] # Msg(t)
    /\ \E i \in 1..Len(completed) : completed[i].role = "user"

\* ------------------------------------------------- scheduler claims
\* C21: after pause_simulation has returned True, a task that was alive
\* stores at most one further message, that of the turn it was in, and
\* leaves its loop at its next status check; a task starts a turn only
\* while the durable status is running.
C21_PauseEndsRunAfterTurn ==
  [][\A t \in TaskIds :
       /\ (run_store_ok(t) /\ tasks[t].pause_turn # NoPause)
            => tasks[t].turn = tasks[t].pause_turn
       /\ (run_check(t) /\ tasks[t].pause_turn # NoPause)
            => tasks'[t].pc \in {"finally", "done"}
       /\ (run_check(t) /\ tasks'[t].pc = "persona")
            => (db.exists /\ db.status = "running")]_vars

\* the persona whose turn it is in the turn with index k
RoundRobin(ids, k) == ids[(k % Len(ids)) + 1]

\* C22: a generation failure in a turn of a run with two or more personas
\* stores no message, adds nothing to the queue, leaves message_count, the
\* durable status and the memories unchanged and advances the turn index by
\* one: the task goes on to its sleep or its next status check, or ends
\* when the turn was the last one; the persona of a turn is always the one round
\* robin gives for the turn index, so the failed turn is not tried again.
C22_GenerationFailureSkipsTurn ==
  /\ [](\A t \in TaskIds :
          tasks[t].pc \in (TurnAwaits \ {"persona"}) =>
            tasks[t].persona_id
              = RoundRobin(tasks[t].persona_ids, tasks[t].turn))
  /\ [][\A t \in TaskIds :
          (run_generate_fail(t) /\ Len(tasks[t].persona_ids) >= 2) =>
            /\ UNCHANGED <<messages, completed, memories, db>>
            /\ tasks'[t].produced = tasks[t].produced
            /\ \/ /\ tasks'[t].pc \in {"sleep", "check"}
                  /\ tasks'[t].turn = tasks[t].turn + 1
               \/ /\ tasks'[t].pc \in {"finally", "done"}
                  /\ tasks[t].turn + 1 >= tasks[t].max_turns
            /\ tasks'[t].pc = "check"
                 => tasks'[t].turn < tasks'[t].max_turns]_vars

\* a task of a two persona session whose first turn failed is generating for
\* the second persona in its second turn, the session still running
C22_Witness ==
  \E t \in TaskIds :
    /\ db.exists /\ db.status = "running" /\ db.persona_ids = <<"A", "B">>
    /\ tasks[t].pc = "generate" /\ tasks[t].turn = 1
    /\ tasks[t].persona_id = "B"
    /\ tasks[t].attempts = 1 /\ tasks[t].failed = 1
    /\ messages = <<>> /\ completed = <<>> /\ db.message_count = 0
    /\ \A p \in PersonaIds : memories[p] = 0

\* the awaits of a turn after generate_response has returned
AfterGeneration == {"store", "queue", "count_read", "count_write", "memory"}

\* C23: a turn whose generation succeeded stores one message with role
\* persona and the acting persona as author, then adds that message to the
\* queue as completed, then raises message_count by exactly 1, then adds one
\* short-term memory to the acting persona; the turn ends only with the last
\* of these (a store write that fails is not held against the turn).
C23_SuccessfulTurnDoesAllFour ==
  [][\A t \in TaskIds :
       LET p == RoundRobin(tasks[t].persona_ids, tasks[t].turn)
           m == [persona_id |-> p, role |-> "persona", task |-> t,
                 turn |-> tasks[t].turn]
       IN /\ run_store_ok(t) =>
               /\ messages' = Append(messages, m)
               /\ UNCHANGED <<completed, db, memories>>
          /\ run_queue(t) =>
               /\ m \in Stored /\ completed' = Append(completed, m)
               /\ UNCHANGED <<messages, db, memories>>
          /\ run_count_write(t) =>
               /\ completed # <<>> /\ completed[Len(completed)] = m
               /\ db'.message_count = db.message_count + 1
               /\ UNCHANGED <<messages, completed, memories>>
          /\ run_memory(t) =>
               /\ memories' = [memories EXCEPT ![p] = @ + 1]
               /\ UNCHANGED <<messages, completed, db>>
          /\ (tasks[t].pc \in AfterGeneration
                /\ tasks'[t].pc \notin AfterGeneration
                /\ ~run_store_fail(t))
               => run_memory(t)]_vars

\* C24: a turn whose persona is missing or inactive makes no generation
\* attempt and changes no message, queue, row or memory, and costs one turn;
\* every turn raises the turn index by one and the index never passes
\* max_turns, so a task whose awaits return leaves its loop and ends.
C24_SkippedTurnAdvances ==
  /\ [][\A t \in TaskIds :
          /\ (run_persona(t) /\ personas[tasks[t].persona_id] # "active") =>
               /\ UNCHANGED <<messages, completed, db, memories>>
               /\ tasks'[t].attempts = tasks[t].attempts
               /\ \/ /\ tasks'[t].pc = "check"
                     /\ tasks'[t].turn = tasks[t].turn + 1
                  \/ /\ tasks'[t].pc \in {"finally", "done"}
                     /\ tasks[t].turn + 1 >= tasks[t].max_turns
          /\ (tasks[t].pc \in TurnAwaits
                /\ tasks'[t].pc \in {"check", "sleep", "single_pause"}) =>
               tasks'[t].turn = tasks[t].turn + 1]_vars
  /\ [](\A t \in TaskIds :
          /\ tasks[t].turn <= tasks[t].max_turns
          /\ tasks[t].pc \in ({"check"} \cup TurnAwaits)
               => tasks[t].turn < tasks[t].max_turns)
  /\ \A t \in TaskIds : (tasks[t].pc = "load") ~> (tasks[t].pc = "done")

\* a run of two personas and two turns has ended with one attempt and one
\* message, that of A: the turn of B, who is gone, was skipped
C24_Witness ==
  \E t \in TaskIds :
    /\ Latest(t) /\ db.persona_ids = <<"A", "B">> /\ db.max_turns = 2
    /\ personas["B"] # "active"
    /\ tasks[t].attempts = 1 /\ tasks[t].failed = 0
    /\ Len(messages) = 1 /\ messages[1].persona_id = "A"
    /\ db.status = "completed"

\* the persona messages the tasks have written to the message store
PersonaMessages == SelectSeq(messages, LAMBDA m : m.role = "persona")

\* C26: whenever no task of the session is inside a turn, message_count is
\* the number of persona messages stored for the session.
C26_CountMatchesStore ==
  (db.exists /\ \A t \in TaskIds : tasks[t].pc \notin TurnAwaits)
  => db.message_count = Len(PersonaMessages)

\* C27: the model read back from the row create_simulation has inserted has
\* the max_turns and the turn_delay that were supplied (0 stays 0, an absent
\* max_turns stays absent), and a task runs with the turn_delay of the row
\* and, where max_turns is set, with that max_turns.
C27_ConfigRoundTrip ==
  [][/\ \A ids \in PersonaLists, mt \in RunTurns, td \in TurnDelays :
          (create_simulation(ids, mt, td) /\ ret' = "True") =>
            /\ db_to_model(db').max_turns = mt
            /\ db_to_model(db').turn_delay = td
     /\ \A t \in TaskIds :
          (run_load(t) /\ db.exists) =>
            /\ tasks'[t].turn_delay = db.turn_delay
            /\ db.max_turns # NoMaxTurns
                 => tasks'[t].max_turns = db.max_turns]_vars

\* max_turns as a run of the session takes it
EffectiveMaxTurns ==
  IF db.max_turns # NoMaxTurns THEN db.max_turns ELSE DefaultMaxTurns

\* C28: every accepted start_simulation creates a task that starts with
\* turn index 0, whatever ran before: its first turn belongs to
\* persona_ids[0], it has the full max_turns to take, and the messages it
\* stores are those of its own turns 0, 1, ... in round-robin order, at most
\* max_turns of them.
C28_StartBeginsAtTurnZero ==
  /\ [][(start_simulation(FALSE, MaxTasks) /\ ret' = "True") =>
          \E t \in TaskIds :
            /\ tasks[t].pc = "none" /\ tasks'[t].pc = "load"
            /\ simulation_tasks' = t]_vars
  /\ [][\A t \in TaskIds :
          /\ (run_load(t) /\ db.exists) =>
               /\ tasks'[t].turn = 0 /\ tasks'[t].pc = "check"
               /\ tasks'[t].max_turns = EffectiveMaxTurns
          /\ (run_check(t) /\ tasks[t].attempts = 0
                /\ tasks'[t].pc = "persona" /\ AllActive) =>
               /\ tasks[t].turn = 0
               /\ tasks'[t].persona_id = db.persona_ids[1]]_vars
  /\ [](\A t \in TaskIds :
          LET ms == TaskMessages(t) IN
          /\ Len(ms) <= EffectiveMaxTurns
          /\ \A k \in 1..Len(ms) :
               /\ ms[k].turn < EffectiveMaxTurns
               /\ ms[k].persona_id = RoundRobin(db.persona_ids, ms[k].turn)
               /\ \A j \in 1..(k - 1) : ms[j].turn < ms[k].turn
          /\ (Len(ms) > 0 /\ AllActive /\ fails = 0) =>
               /\ ms[1].turn = 0 /\ ms[1].persona_id = db.persona_ids[1])

\* a session of two personas that was paused after one of its two turns has
\* been started again, and the second run has stored two messages, the
\* first of them by A
C28_Witness ==
  /\ db.exists /\ db.persona_ids = <<"A", "B">> /\ db.max_turns = 2
  /\ AllActive /\ fails = 0 /\ Latest(2)
  /\ tasks[1].pc = "done" /\ tasks[1].produced = 1
  /\ Len(TaskMessages(2)) = 2
  /\ TaskMessages(2)[1].persona_id = "A" /\ TaskMessages(2)[1].turn = 0
  /\ db.message_count = 3

\* C29: long-term memory never holds the same entry twice: a short-term
\* entry is copied into it at most once.
C29_PromotedAtMostOnce ==
  \A i, j \in 1..Len(memory.long_term) :
    i # j => memory.long_term[i].id # memory.long_term[j].id

\* the entries of a list
Entries(list) == {list[i] : i \in 1..Len(list)}

\* the messages in the completed list of the session s
Completed(s) == Entries(queues[s].completed)

\* the list holds no entry twice
NoRepeat(list) ==
  \A i, j \in 1..Len(list) : i # j => list[i] # list[j]

\* C30: every message is in at most one of the pending queue, the in-flight
\* mapping and the completed list of a session; it leaves the pending queue
\* only by dequeue or by the eviction of an enqueue on a full queue, and the
\* in-flight mapping only by mark_completed or mark_failed for its id;
\* mark_completed and mark_failed for an id that is not in flight change
\* nothing; get_queue_stats returns the sizes of the three containers.
C30_ContainersDisjoint ==
  /\ [](\A s \in Sessions :
          /\ Pending(s) \cap queues[s].processing = {}
          /\ Pending(s) \cap Completed(s) = {}
          /\ queues[s].processing \cap Completed(s) = {}
          /\ NoRepeat(queues[s].queue) /\ NoRepeat(queues[s].completed))
  /\ [][\A s \in Sessions, m \in MessageIds :
          /\ (m \in Pending(s) /\ m \notin Entries(queues'[s].queue)) =>
               \E c \in ClientIds :
                 /\ SessionOf(c) = s /\ m = Head(queues[s].queue)
                 /\ \/ dequeue_message(c)
                    \/ enqueue_message(c)
                         /\ Len(queues[s].queue) = MaxQueueSize
          /\ (m \in queues[s].processing
                /\ m \notin queues'[s].processing) =>
               \E c \in ClientIds :
                 /\ SessionOf(c) = s /\ clients[c].arg = m
                 /\ mark_completed(c) \/ mark_failed(c)]_vars
  /\ [][\A c \in ClientIds :
          /\ ((mark_completed(c) \/ mark_failed(c))
                /\ clients[c].arg \notin QueueOf(c).processing) =>
               UNCHANGED <<queues, message_status>>
          /\ get_queue_stats(c) =>
               /\ clients'[c].ret = <<Len(QueueOf(c).queue),
                                      Cardinality(QueueOf(c).processing),
                                      Len(QueueOf(c).completed)>>
               /\ UNCHANGED <<queues, message_status>>]_vars

\* get_queue_stats has returned 1, 1, 1 for a session with a pending, an
\* in-flight and a completed message, the last one completed by
\* mark_completed
C30_Witness ==
  \E s \in Sessions :
    /\ clients[1].pc = "idle" /\ clients[1].op = "get_queue_stats"
    /\ clients[1].ret = <<1, 1, 1>>
    /\ Len(queues[s].queue) = 1 /\ Cardinality(queues[s].processing) = 1
    /\ Len(queues[s].completed) = 1
    /\ message_role[queues[s].completed[1]] = "persona"

\* ------------------------------------------------- global agent claims
\* the short-term memory holds the entry n, or AgentShortTermLimit or more
\* later entries have taken its place
Remembered(ag, n) ==
  \/ \E m \in Entries(ag.short_term) : m.id = n
  \/ Len(ag.conversation_history) - n >= AgentShortTermLimit

====
